---- MODULE Spec2Model ----
(***************************************************************************)
(* A model of the three MCP tool servers of the repository:                *)
(*   weather.py          NWS + OpenWeatherMap tools (stdio)                 *)
(*   map.py              Nominatim / Overpass / OSRM tools (stdio)          *)
(*   mcp_weather_sse.py  OpenWeatherMap tools of WeatherSSEServer           *)
(* One tool invocation runs at a time.  An invocation starts in a tool's   *)
(* own action (argument validation, query synthesis, the first request),   *)
(* suspends at each await of the transport (pc = "await..."), and resumes  *)
(* in the tool's resume action when the upstream response arrives.         *)
(*                                                                         *)
(* Python values: a dict is a function with a set of strings as domain (a  *)
(* missing key is a key outside the domain), a list is a sequence, the     *)
(* empty dict and the empty list are both << >>.  A value that may be None *)
(* (what a make_*_request returns) is an option record.  A call that may   *)
(* raise returns an outcome record naming the exception.                   *)
(***************************************************************************)
EXTENDS Integers, Sequences, FiniteSets, TLC

VARIABLES
    OPENWEATHER_API_KEY,  \* the process-wide credential read from the environment
    tool,                 \* name of the tool of the current invocation
    args,                 \* its arguments
    pc,                   \* "idle", "await", "await_points", "await_forecast", "done"
    sent,                 \* the requests the current invocation has issued, in order
    data,                 \* the last value a make_*_request / requests.get gave it
    result                \* what the invocation returned (or the fault that left it)

vars == <<OPENWEATHER_API_KEY, tool, args, pc, sent, data, result>>

-----------------------------------------------------------------------------
(* Bounds of the model                                                     *)

MaxSamples == 3      \* longest forecast sample list an upstream response carries
MaxFeatures == 2     \* longest alert feature list
MaxItems == 2        \* longest place / element / route list

-----------------------------------------------------------------------------
(* Python primitives                                                       *)

EmptyDict == << >>

\* dict.get(k, default)
Get(d, k, default) == IF k \in DOMAIN d THEN d[k] ELSE default

\* the dict d restricted to the keys in S
Restrict(d, S) == [k \in (DOMAIN d) \cap S |-> d[k]]

\* Optional values: None, or a value
None == [is_none |-> TRUE, value |-> << >>]
Some(v) == [is_none |-> FALSE, value |-> v]

\* "not x" for an optional dict or list: None, {} and [] are falsy
Falsy(o) == o.is_none \/ o.value = << >>

\* Outcome of a call that may raise
Returned(v) == [exc |-> "", value |-> v]
Raised(e) == [exc |-> e, value |-> << >>]

\* All sequences over S of length at most n
RECURSIVE SeqsUpTo(_, _)
SeqsUpTo(S, n) ==
    IF n = 0 THEN {<< >>}
    ELSE LET shorter == SeqsUpTo(S, n - 1)
         IN  shorter \cup {Append(s, x) : s \in {t \in shorter : Len(t) = n - 1}, x \in S}

\* list[:n] for any integer n (a negative n drops the last -n elements)
Take(s, n) ==
    LET k == IF n >= 0 THEN (IF n < Len(s) THEN n ELSE Len(s))
             ELSE (IF Len(s) + n > 0 THEN Len(s) + n ELSE 0)
    IN  SubSeq(s, 1, k)

\* str.split(sep) of a string given as a sequence of characters
RECURSIVE SplitFrom(_, _, _, _)
SplitFrom(s, sep, i, cur) ==
    IF i > Len(s) THEN <<cur>>
    ELSE IF s[i] = sep THEN <<cur>> \o SplitFrom(s, sep, i + 1, << >>)
    ELSE SplitFrom(s, sep, i + 1, Append(cur, s[i]))

Split(s, sep) == SplitFrom(s, sep, 1, << >>)

\* sep.join(parts)
RECURSIVE Join(_, _)
Join(sep, parts) ==
    IF Len(parts) = 0 THEN << >>
    ELSE IF Len(parts) = 1 THEN <<parts[1]>>
    ELSE <<parts[1], sep>> \o Join(sep, Tail(parts))

\* x in list
InList(x, l) == \E i \in 1..Len(l) : l[i] = x

-----------------------------------------------------------------------------
(* Results of a tool invocation                                            *)

NoResult == [kind |-> "none", body |-> << >>]
Text(parts) == [kind |-> "text", body |-> parts]     \* a plain diagnostic string
Report(parts) == [kind |-> "report", body |-> parts] \* formatted records joined into a string
Json(v) == [kind |-> "json", body |-> v]             \* json.dumps(v)
Fault(e) == [kind |-> "fault", body |-> <<e>>]       \* an exception left the tool

-----------------------------------------------------------------------------
(* The credential                                                          *)

Keys == {"", "k"}            \* "" : OPENWEATHER_API_KEY is not set

Init ==
    /\ OPENWEATHER_API_KEY \in Keys
    /\ tool = "none"
    /\ args = EmptyDict
    /\ pc = "idle"
    /\ sent = << >>
    /\ data = None
    /\ result = NoResult

\* A new invocation may start when none is in flight.
Ready == pc = "idle"

\* The invocation returns r (or faults with r) having issued no further request.
Finish(r) ==
    /\ pc' = "done"
    /\ result' = r

Start(t, a) ==
    /\ Ready
    /\ tool' = t
    /\ args' = a
    /\ UNCHANGED OPENWEATHER_API_KEY

-----------------------------------------------------------------------------
(* The transport collaborator                                              *)
(* An upstream response is a terminal failure (a network error, a timeout, *)
(* a non-success status: ok = FALSE) or a success carrying a JSON payload.  *)

Failure == [ok |-> FALSE, json |-> << >>]
Success(payload) == [ok |-> TRUE, json |-> payload]
Responses(payloads) == {Failure} \cup {Success(p) : p \in payloads}

Request(api, target, params) == [api |-> api, target |-> target, params |-> params]

\* try: response.raise_for_status(); return response.json()
\* except Exception: return None
make_nominatim_request(resp) == IF resp.ok THEN Some(resp.json) ELSE None
make_overpass_request(resp) == IF resp.ok THEN Some(resp.json) ELSE None
make_osrm_request(resp) == IF resp.ok THEN Some(resp.json) ELSE None
make_nws_request(resp) == IF resp.ok THEN Some(resp.json) ELSE None

\* an f-string field: the value, its conversion, its suffix
Fmt(value, conv, suffix) == [value |-> value, conv |-> conv, suffix |-> suffix]

\* [f(x) for x in l] where f may raise, given the outcomes of f on l from the
\* i-th on: the list of values, or the first exception
RECURSIVE MapOutcome(_, _)
MapOutcome(outcomes, i) ==
    IF i > Len(outcomes) THEN Returned(<< >>)
    ELSE LET head == outcomes[i]
         IN  IF head.exc # "" THEN head
             ELSE LET rest == MapOutcome(outcomes, i + 1)
                  IN  IF rest.exc # "" THEN rest
                      ELSE Returned(<<head.value>> \o rest.value)

-----------------------------------------------------------------------------
(* map.py: routing                                                         *)

Points == {[lat |-> 1, lon |-> 2], [lat |-> 3, lon |-> 4]}
Profiles == {"driving", "walking", "cycling", "flying", ""}

OsrmSteps ==
    { EmptyDict,
      [maneuver |-> EmptyDict, distance |-> 10],
      [maneuver |-> [instruction |-> "Turn left", type |-> "turn"],
       distance |-> 10, duration |-> 5, name |-> "Main St"] }
OsrmLegs ==
    {EmptyDict} \cup {[distance |-> 1500, duration |-> 120, steps |-> <<s>>] : s \in OsrmSteps}
OsrmRoutes ==
    {EmptyDict, [distance |-> 1500]}
    \cup {[distance |-> 1500, duration |-> 120, geometry |-> "g", legs |-> <<l>>] : l \in OsrmLegs}
OsrmPayloads ==
    { EmptyDict,
      [code |-> "NoRoute"],
      [code |-> "NoRoute", message |-> "Impossible route"],
      [code |-> "Ok"] }
    \cup {[code |-> "Ok", routes |-> rs] : rs \in SeqsUpTo(OsrmRoutes, MaxItems)}
    \cup {[routes |-> <<r>>] : r \in OsrmRoutes}

format_step(step) ==
    [instruction |-> Get(Get(step, "maneuver", EmptyDict), "instruction", "Continue"),
     distance |-> Fmt(Get(step, "distance", 0), "", " m"),
     duration |-> Fmt(Get(step, "duration", 0), "", " s"),
     name |-> Get(step, "name", ""),
     type |-> Get(Get(step, "maneuver", EmptyDict), "type", "")]

format_leg(leg) ==
    [distance |-> Fmt(Get(leg, "distance", 0), "/1000:.2f", " km"),
     duration |-> Fmt(Get(leg, "duration", 0), "/60:.1f", " minutes"),
     steps |-> LET steps == Get(leg, "steps", << >>)
               IN  [i \in 1..Len(steps) |-> format_step(steps[i])]]

format_route_result(route_data) ==
    IF Get(route_data, "routes", << >>) = << >>
    THEN [error |-> "No routes found"]
    ELSE LET route == route_data["routes"][1]
             legs == Get(route, "legs", << >>)
         IN  [distance |-> Fmt(Get(route, "distance", 0), "/1000:.2f", " km"),
              duration |-> Fmt(Get(route, "duration", 0), "/60:.1f", " minutes"),
              geometry |-> Get(route, "geometry", ""),
              legs |-> [i \in 1..Len(legs) |-> format_leg(legs[i])]]

\* a profile dropped from the list
valid_profiles_short == <<"driving", "walking">>

valid_profiles == <<"driving", "walking", "cycling">>

\* the "no routes" guard of format_route_result left out: route_data["routes"][0]
\* raises on a payload without routes
get_directions_return_unguarded(a, d) ==
    IF Falsy(d) THEN Text(<<"Unable to fetch routing data.">>)
    ELSE IF Get(d.value, "code", "") # "Ok"
    THEN Text(<<"Routing error: ", Get(d.value, "message", "Unknown error")>>)
    ELSE IF "routes" \notin DOMAIN d.value THEN Fault("KeyError")
    ELSE IF d.value["routes"] = << >> THEN Fault("IndexError")
    ELSE Json([start_coordinates |-> [latitude |-> a.start_lat, longitude |-> a.start_lon],
               end_coordinates |-> [latitude |-> a.end_lat, longitude |-> a.end_lon],
               profile |-> a.profile,
               route |-> format_route_result(d.value)])

\* what get_directions returns once make_osrm_request has given d
get_directions_return(a, d) ==
    IF Falsy(d) THEN Text(<<"Unable to fetch routing data.">>)
    ELSE IF Get(d.value, "code", "") # "Ok"
    THEN Text(<<"Routing error: ", Get(d.value, "message", "Unknown error")>>)
    ELSE Json([start_coordinates |-> [latitude |-> a.start_lat, longitude |-> a.start_lon],
               end_coordinates |-> [latitude |-> a.end_lat, longitude |-> a.end_lon],
               profile |-> a.profile,
               route |-> format_route_result(d.value)])

get_directions ==
    \E start \in Points, end \in Points, profile \in Profiles :
        /\ Start("get_directions",
                 [start_lat |-> start.lat, start_lon |-> start.lon,
                  end_lat |-> end.lat, end_lon |-> end.lon, profile |-> profile])
        /\ data' = None
        /\ IF ~InList(profile, valid_profiles)
           THEN /\ Finish(Text(<<"Invalid profile. Must be one of: ">>
                               \o Join(", ", valid_profiles)))
                /\ sent' = << >>
           ELSE /\ sent' = <<Request("osrm",
                                     [route |-> profile,
                                      coordinates |-> <<start.lon, start.lat, end.lon, end.lat>>],
                                     [overview |-> "full", steps |-> "true",
                                      geometries |-> "geojson"])>>
                /\ pc' = "await"
                /\ result' = NoResult

get_directions_resume ==
    /\ pc = "await" /\ tool = "get_directions"
    /\ \E resp \in Responses(OsrmPayloads) :
        /\ data' = make_osrm_request(resp)
        /\ Finish(get_directions_return(args, data'))
    /\ UNCHANGED <<OPENWEATHER_API_KEY, tool, args, sent>>

-----------------------------------------------------------------------------
(* map.py: place search                                                    *)

Queries == {"Hanoi"}
LimitArgs == {-1, 0, 1, 5, 50, 51, 100}

\* Nominatim gives lat and lon as numeric strings; num is the number one reads
NumStr(n) == [num |-> n]

FullLocation ==
    [display_name |-> "Hanoi, Vietnam", name |-> "Hanoi", type |-> "city",
     lat |-> NumStr(21), lon |-> NumStr(105), address |-> [city |-> "Hanoi"],
     importance |-> 1, place_id |-> "235"]
Locations == {Restrict(FullLocation, S) : S \in SUBSET DOMAIN FullLocation}
NominatimPayloads ==
    {<<l>> : l \in Locations} \cup SeqsUpTo({FullLocation, EmptyDict}, MaxItems)

\* float(d.get(k, 0))
FloatOfGet(d, k) == IF k \in DOMAIN d THEN d[k].num ELSE 0

format_location_result(location) ==
    [display_name |-> Get(location, "display_name", "Unknown"),
     name |-> Get(location, "name", "Unknown"),
     type |-> Get(location, "type", "Unknown"),
     coordinates |-> [latitude |-> FloatOfGet(location, "lat"),
                      longitude |-> FloatOfGet(location, "lon")],
     address |-> Get(location, "address", EmptyDict),
     importance |-> Get(location, "importance", 0),
     place_id |-> Get(location, "place_id", "Unknown")]

\* min(limit, 50)
\* the cap left out
requested_limit_uncapped(limit) == limit

requested_limit(limit) == IF limit < 50 THEN limit ELSE 50

\* what search_location returns once make_nominatim_request has given d
search_location_return(a, d) ==
    IF Falsy(d) THEN Text(<<"Unable to fetch location data.">>)
    ELSE IF Falsy(d) THEN Text(<<"No locations found for the given query.">>)
    ELSE LET results == [i \in 1..Len(d.value) |-> format_location_result(d.value[i])]
         IN  Json([query |-> a.query, results_count |-> Len(results), locations |-> results])

search_location ==
    \E query \in Queries, limit \in LimitArgs :
        /\ Start("search_location", [query |-> query, limit |-> limit])
        /\ data' = None
        /\ sent' = <<Request("nominatim", "/search",
                             [q |-> query, format |-> "json", addressdetails |-> 1,
                              limit |-> requested_limit(limit)])>>
        /\ pc' = "await"
        /\ result' = NoResult

search_location_resume ==
    /\ pc = "await" /\ tool = "search_location"
    /\ \E resp \in Responses(NominatimPayloads) :
        /\ data' = make_nominatim_request(resp)
        /\ Finish(search_location_return(args, data'))
    /\ UNCHANGED <<OPENWEATHER_API_KEY, tool, args, sent>>

-----------------------------------------------------------------------------
(* map.py: nearby services                                                 *)

ServiceTypes == {"cafe"}
Radii == {500, 1000}

CafeTags == [amenity |-> "cafe", name |-> "Cafe X"]
OverpassElements ==
    { EmptyDict,
      [type |-> "node", id |-> 1, lat |-> 21, lon |-> 105, tags |-> CafeTags],
      [type |-> "node", id |-> 2],
      [type |-> "way", id |-> 3, center |-> [lat |-> 22, lon |-> 106], tags |-> CafeTags],
      [type |-> "way", id |-> 4, tags |-> [amenity |-> "cafe"]],
      [type |-> "relation", id |-> 5, center |-> [lat |-> 23, lon |-> 107], tags |-> CafeTags],
      [type |-> "relation", id |-> 6] }
OverpassPayloads ==
    {EmptyDict, [version |-> "0.6"]}
    \cup {[version |-> "0.6", elements |-> es] : es \in SeqsUpTo(OverpassElements, MaxItems)}
    \cup {[elements |-> << >>]}

\* the node branch left out: only a way's center is read
service_coordinates_center_only(element) ==
    IF Get(element, "type", "") = "way"
    THEN LET center == Get(element, "center", EmptyDict)
         IN  [latitude |-> Get(center, "lat", 0), longitude |-> Get(center, "lon", 0)]
    ELSE [latitude |-> 0, longitude |-> 0]

\* "Get coordinates based on element type": node, way, anything else
service_coordinates(element) ==
    IF Get(element, "type", "") = "node"
    THEN [latitude |-> Get(element, "lat", 0), longitude |-> Get(element, "lon", 0)]
    ELSE IF Get(element, "type", "") = "way"
    THEN LET center == Get(element, "center", EmptyDict)
         IN  [latitude |-> Get(center, "lat", 0), longitude |-> Get(center, "lon", 0)]
    ELSE [latitude |-> 0, longitude |-> 0]

format_service_result(element) ==
    LET tags == Get(element, "tags", EmptyDict)
        coords == service_coordinates(element)
    IN  [id |-> Get(element, "id", "Unknown"),
         type |-> Get(element, "type", "Unknown"),
         name |-> Get(tags, "name", "Unnamed"),
         coordinates |-> coords,
         amenity |-> Get(tags, "amenity", "Unknown"),
         shop |-> Get(tags, "shop", ""),
         cuisine |-> Get(tags, "cuisine", ""),
         opening_hours |-> Get(tags, "opening_hours", "Unknown"),
         phone |-> Get(tags, "phone", ""),
         website |-> Get(tags, "website", ""),
         address |-> [street |-> Get(tags, "addr:street", ""),
                      house_number |-> Get(tags, "addr:housenumber", ""),
                      city |-> Get(tags, "addr:city", ""),
                      postcode |-> Get(tags, "addr:postcode", "")],
         tags |-> tags]

\* the Overpass QL query: three statements, one per element kind, and "out center;"
overpass_query(service_type, latitude, longitude, radius) ==
    [statements |-> [i \in 1..3 |->
                        [kind |-> <<"node", "way", "relation">>[i],
                         key |-> "amenity", value |-> service_type,
                         around |-> <<radius, latitude, longitude>>]],
     out |-> "center"]

\* the "if not elements" check left out
search_services_return_unchecked(a, d) ==
    IF Falsy(d) THEN Text(<<"Unable to fetch service data.">>)
    ELSE Json([service_type |-> a.service_type,
               search_center |-> [latitude |-> a.latitude, longitude |-> a.longitude],
               search_radius |-> Fmt(a.radius, "", "m"),
               results_count |-> Len(Get(d.value, "elements", << >>)),
               services |-> << >>])

\* what search_services returns once make_overpass_request has given d
search_services_return(a, d) ==
    IF Falsy(d) THEN Text(<<"Unable to fetch service data.">>)
    ELSE LET elements == Get(d.value, "elements", << >>)
         IN  IF elements = << >>
             THEN Text(<<"No ", a.service_type, " services found within ",
                         Fmt(a.radius, "", "m"), " of the specified location.">>)
             ELSE LET results == [i \in 1..Len(elements) |-> format_service_result(elements[i])]
                  IN  Json([service_type |-> a.service_type,
                            search_center |-> [latitude |-> a.latitude,
                                               longitude |-> a.longitude],
                            search_radius |-> Fmt(a.radius, "", "m"),
                            results_count |-> Len(results),
                            services |-> results])

search_services ==
    \E service_type \in ServiceTypes, center \in Points, radius \in Radii :
        /\ Start("search_services",
                 [service_type |-> service_type, latitude |-> center.lat,
                  longitude |-> center.lon, radius |-> radius])
        /\ data' = None
        /\ sent' = <<Request("overpass", "/api/interpreter",
                             overpass_query(service_type, center.lat, center.lon, radius))>>
        /\ pc' = "await"
        /\ result' = NoResult

search_services_resume ==
    /\ pc = "await" /\ tool = "search_services"
    /\ \E resp \in Responses(OverpassPayloads) :
        /\ data' = make_overpass_request(resp)
        /\ Finish(search_services_return(args, data'))
    /\ UNCHANGED <<OPENWEATHER_API_KEY, tool, args, sent>>

-----------------------------------------------------------------------------
(* weather.py: NWS tools (US only)                                         *)

States == {"CA"}

FullAlertProps ==
    [event |-> "Flood Warning", areaDesc |-> "Sacramento", severity |-> "Severe",
     description |-> "River rising", instruction |-> "Move to higher ground"]
AlertFeatures ==
    {EmptyDict, [id |-> "urn:1"]}
    \cup {[properties |-> Restrict(FullAlertProps, S)] : S \in SUBSET DOMAIN FullAlertProps}
AlertPayloads ==
    {EmptyDict, [type |-> "FeatureCollection"]}
    \cup {[features |-> <<f>>] : f \in AlertFeatures}
    \cup {[features |-> fs] :
            fs \in SeqsUpTo({EmptyDict, [properties |-> EmptyDict],
                             [properties |-> FullAlertProps]}, MaxFeatures)}

\* props = feature["properties"] raises KeyError when the key is missing
format_alert(feature) ==
    IF "properties" \notin DOMAIN feature THEN Raised("KeyError")
    ELSE LET props == feature["properties"]
         IN  Returned(<<"Event: ", Get(props, "event", "Unknown"),
                        "Area: ", Get(props, "areaDesc", "Unknown"),
                        "Severity: ", Get(props, "severity", "Unknown"),
                        "Description: ", Get(props, "description", "No description available"),
                        "Instructions: ",
                        Get(props, "instruction", "No specific instructions provided")>>)

\* what get_alerts returns once make_nws_request has given d
get_alerts_return(d) ==
    IF Falsy(d) \/ "features" \notin DOMAIN d.value
    THEN Text(<<"Unable to fetch alerts or no alerts found.">>)
    ELSE IF d.value["features"] = << >>
    THEN Text(<<"No active alerts for this state.">>)
    ELSE LET alerts == MapOutcome([i \in 1..Len(d.value["features"]) |->
                                       format_alert(d.value["features"][i])], 1)
         IN  IF alerts.exc # "" THEN Fault(alerts.exc)
             ELSE Report(Join("\n---\n", alerts.value))

get_alerts ==
    \E state \in States :
        /\ Start("get_alerts", [state |-> state])
        /\ data' = None
        /\ sent' = <<Request("nws", <<"/alerts/active/area/", state>>, EmptyDict)>>
        /\ pc' = "await"
        /\ result' = NoResult

get_alerts_resume ==
    /\ pc = "await" /\ tool = "get_alerts"
    /\ \E resp \in Responses(AlertPayloads) :
        /\ data' = make_nws_request(resp)
        /\ Finish(get_alerts_return(data'))
    /\ UNCHANGED <<OPENWEATHER_API_KEY, tool, args, sent>>

ForecastUrls == {"https://api.weather.gov/gridpoints/STO/1,2/forecast",
                 "https://api.weather.gov/gridpoints/LOX/3,4/forecast"}
PointsPayloads ==
    {EmptyDict, [id |-> "p"], [properties |-> EmptyDict], [properties |-> [cwa |-> "STO"]]}
    \cup {[properties |-> [forecast |-> u]] : u \in ForecastUrls}

ShownPeriods == 5
MaxPeriods == 6      \* longest period list an upstream forecast carries

Period(n) ==
    [name |-> [period |-> n], temperature |-> 70, temperatureUnit |-> "F",
     windSpeed |-> "5 mph", windDirection |-> "N", detailedForecast |-> "Sunny"]
PeriodKeys == {"name", "temperature", "temperatureUnit", "windSpeed", "windDirection",
               "detailedForecast"}
\* period lists: the first n periods, and those with the k-th period missing a field
PeriodLists ==
    {[i \in 1..n |-> Period(i)] : n \in 0..MaxPeriods}
    \cup {[i \in 1..MaxPeriods |-> IF i = k THEN [name |-> [period |-> i]] ELSE Period(i)] :
            k \in 1..MaxPeriods}
NwsForecastPayloads ==
    {EmptyDict, [id |-> "f"], [properties |-> EmptyDict]}
    \cup {[properties |-> [periods |-> ps]] : ps \in PeriodLists}

\* period['name'] ... period['detailedForecast'] raise KeyError on a missing key
format_period(period) ==
    IF ~(PeriodKeys \subseteq DOMAIN period) THEN Raised("KeyError")
    ELSE Returned(<<period["name"], ":",
                    "Temperature: ", period["temperature"], period["temperatureUnit"],
                    "Wind: ", period["windSpeed"], period["windDirection"],
                    "Forecast: ", period["detailedForecast"]>>)

\* the first request of get_forecast
get_forecast ==
    \E point \in Points :
        /\ Start("get_forecast", [latitude |-> point.lat, longitude |-> point.lon])
        /\ data' = None
        /\ sent' = <<Request("nws", <<"/points/", point.lat, ",", point.lon>>, EmptyDict)>>
        /\ pc' = "await_points"
        /\ result' = NoResult

\* a forecast URL kept from another lookup instead of the one just resolved
forecast_url_stale(points_data) == "https://api.weather.gov/gridpoints/STO/1,2/forecast"

\* forecast_url = points_data["properties"]["forecast"]
forecast_url(points_data) == points_data["properties"]["forecast"]

\* points_data arrives: the forecast URL is read from it and requested
get_forecast_points ==
    /\ pc = "await_points" /\ tool = "get_forecast"
    /\ \E resp \in Responses(PointsPayloads) :
        /\ data' = make_nws_request(resp)
        /\ IF Falsy(data')
           THEN /\ Finish(Text(<<"Unable to fetch forecast data for this location.">>))
                /\ UNCHANGED sent
           ELSE IF \/ "properties" \notin DOMAIN data'.value
                   \/ "forecast" \notin DOMAIN data'.value["properties"]
           THEN /\ Finish(Fault("KeyError"))
                /\ UNCHANGED sent
           ELSE /\ sent' = Append(sent, Request("nws", forecast_url(data'.value), EmptyDict))
                /\ pc' = "await_forecast"
                /\ UNCHANGED result
    /\ UNCHANGED <<OPENWEATHER_API_KEY, tool, args>>

\* what get_forecast returns once the second make_nws_request has given d
get_forecast_return(d) ==
    IF Falsy(d) THEN Text(<<"Unable to fetch detailed forecast.">>)
    ELSE IF \/ "properties" \notin DOMAIN d.value
            \/ "periods" \notin DOMAIN d.value["properties"]
    THEN Fault("KeyError")
    ELSE LET periods == d.value["properties"]["periods"]
             forecasts == MapOutcome([i \in 1..Len(Take(periods, ShownPeriods)) |->
                                          format_period(periods[i])], 1)
         IN  IF forecasts.exc # "" THEN Fault(forecasts.exc)
             ELSE Report(Join("\n---\n", forecasts.value))

get_forecast_resume ==
    /\ pc = "await_forecast" /\ tool = "get_forecast"
    /\ \E resp \in Responses(NwsForecastPayloads) :
        /\ data' = make_nws_request(resp)
        /\ Finish(get_forecast_return(data'))
    /\ UNCHANGED <<OPENWEATHER_API_KEY, tool, args, sent>>

-----------------------------------------------------------------------------
(* OpenWeatherMap payloads                                                  *)

Cities == {"London"}
Units == {"metric", "imperial"}
DaysArgs == -1..6

Conditions == [main |-> "Rain", description |-> "light rain", icon |-> "10d"]

FullWeather ==
    [name |-> "London",
     sys |-> [country |-> "GB", sunrise |-> 6, sunset |-> 18],
     coord |-> [lat |-> 51, lon |-> 0],
     main |-> [temp |-> 15, feels_like |-> 14, humidity |-> 50, pressure |-> 1000],
     wind |-> [speed |-> 3, deg |-> 90],
     weather |-> <<Conditions>>,
     visibility |-> 9000,
     clouds |-> [all |-> 40],
     rain |-> [1h |-> 2],
     snow |-> [1h |-> 1]]
\* every subset of the top-level fields, and each nested record or list emptied
WeatherPayloads ==
    {Restrict(FullWeather, S) : S \in SUBSET DOMAIN FullWeather}
    \cup {[FullWeather EXCEPT ![k] = EmptyDict] :
            k \in {"sys", "coord", "main", "wind", "weather", "clouds", "rain", "snow"}}
    \cup {[FullWeather EXCEPT !["weather"] = <<EmptyDict>>]}

\* a date-time string "D T" as its characters; dates and times are one character
DateTime(date, time) == <<date, " ", time>>

ForecastItem(date, time, t) ==
    [dt_txt |-> DateTime(date, time),
     main |-> [temp |-> t, feels_like |-> t, temp_min |-> t, temp_max |-> t,
               humidity |-> 50, pressure |-> 1000],
     weather |-> <<Conditions>>,
     wind |-> [speed |-> 3, deg |-> 90],
     clouds |-> [all |-> 40]]
ForecastItems ==
    { ForecastItem("A", "x", 1), ForecastItem("A", "y", 2),
      ForecastItem("B", "x", 3), ForecastItem("C", "x", 4),
      [dt_txt |-> DateTime("A", "x")],                          \* only the timestamp
      EmptyDict,                                                \* no field at all
      [ForecastItem("B", "y", 5) EXCEPT !["dt_txt"] = <<"B">>],  \* a date with no time
      [ForecastItem("C", "y", 6) EXCEPT !["weather"] = << >>] }  \* an empty weather list

FullCity == [name |-> "London", country |-> "GB", coord |-> [lat |-> 51, lon |-> 0]]
ForecastPayloads ==
    { EmptyDict, [city |-> FullCity], [cod |-> "200"],
      [list |-> <<ForecastItem("A", "x", 1)>>],
      [city |-> EmptyDict, list |-> <<ForecastItem("A", "x", 1)>>] }
    \cup {[city |-> FullCity, list |-> l] : l \in SeqsUpTo(ForecastItems, MaxSamples)}

-----------------------------------------------------------------------------
(* weather.py: the OpenWeatherMap mappers                                   *)

temp_unit(units) == IF units = "metric" THEN "°C" ELSE "°F"
\* the speed suffix written into the format string
speed_unit_fixed(units) == "m/s"

speed_unit(units) == IF units = "metric" THEN "m/s" ELSE "mph"

\* data.get('weather', [{}])[0] raises IndexError on an empty list
first_weather(d) ==
    LET w == Get(d, "weather", <<EmptyDict>>)
    IN  IF w = << >> THEN Raised("IndexError") ELSE Returned(w[1])

weather_block(w) ==
    [main |-> Get(w, "main", "Unknown"),
     description |-> Get(w, "description", "Unknown"),
     icon |-> Get(w, "icon", "Unknown")]

\* the "current" record of format_current_weather, without rain and snow
current_block(d, w, units) ==
    [temperature |-> Fmt(Get(Get(d, "main", EmptyDict), "temp", 0), "", temp_unit(units)),
     feels_like |-> Fmt(Get(Get(d, "main", EmptyDict), "feels_like", 0), "", temp_unit(units)),
     humidity |-> Fmt(Get(Get(d, "main", EmptyDict), "humidity", 0), "", "%"),
     pressure |-> Fmt(Get(Get(d, "main", EmptyDict), "pressure", 0), "", " hPa"),
     wind |-> [speed |-> Fmt(Get(Get(d, "wind", EmptyDict), "speed", 0), " ", speed_unit(units)),
               direction |-> Get(Get(d, "wind", EmptyDict), "deg", 0)],
     weather |-> weather_block(w),
     visibility |-> Fmt(Get(d, "visibility", 0), "/1000", " km"),
     cloudiness |-> Fmt(Get(Get(d, "clouds", EmptyDict), "all", 0), "", "%"),
     sunrise |-> Get(Get(d, "sys", EmptyDict), "sunrise", 0),
     sunset |-> Get(Get(d, "sys", EmptyDict), "sunset", 0)]

\* if 'rain' in data: ... ; if 'snow' in data: ...
precipitation(d) ==
    [k \in {"rain", "snow"} \cap DOMAIN d |-> [1h |-> Fmt(Get(d[k], "1h", 0), "", " mm")]]

format_current_weather(d, units) ==
    LET w == first_weather(d)
    IN  IF w.exc # "" THEN [error |-> "Error formatting weather data"]
        ELSE [location |-> [name |-> Get(d, "name", "Unknown"),
                            country |-> Get(Get(d, "sys", EmptyDict), "country", "Unknown"),
                            coordinates |->
                                [latitude |-> Get(Get(d, "coord", EmptyDict), "lat", 0),
                                 longitude |-> Get(Get(d, "coord", EmptyDict), "lon", 0)]],
              current |-> current_block(d, w.value, units) @@ precipitation(d)]

\* one entry appended to daily_forecasts[date]; [1] of the split timestamp and
\* [0] of the weather list raise IndexError
forecast_sample(item, units) ==
    LET parts == Split(Get(item, "dt_txt", << >>), " ")
        w == first_weather(item)
        main == Get(item, "main", EmptyDict)
    IN  IF Len(parts) < 2 THEN Raised("IndexError")
        ELSE IF w.exc # "" THEN w
        ELSE Returned(
            [time |-> parts[2],
             temperature |-> Fmt(Get(main, "temp", 0), "", temp_unit(units)),
             feels_like |-> Fmt(Get(main, "feels_like", 0), "", temp_unit(units)),
             min_temp |-> Fmt(Get(main, "temp_min", 0), "", temp_unit(units)),
             max_temp |-> Fmt(Get(main, "temp_max", 0), "", temp_unit(units)),
             humidity |-> Fmt(Get(main, "humidity", 0), "", "%"),
             pressure |-> Fmt(Get(main, "pressure", 0), "", " hPa"),
             weather |-> weather_block(w.value),
             wind |-> [speed |-> Fmt(Get(Get(item, "wind", EmptyDict), "speed", 0), " ",
                                     speed_unit(units)),
                       direction |-> Get(Get(item, "wind", EmptyDict), "deg", 0)],
             cloudiness |-> Fmt(Get(Get(item, "clouds", EmptyDict), "all", 0), "", "%")])

\* a sample put at the front of its date's list
append_to_date_front(daily, date, sample) ==
    IF \E k \in 1..Len(daily) : daily[k].date = date
    THEN [k \in 1..Len(daily) |->
            IF daily[k].date = date
            THEN [date |-> date, samples |-> <<sample>> \o daily[k].samples]
            ELSE daily[k]]
    ELSE Append(daily, [date |-> date, samples |-> <<sample>>])

\* daily_forecasts is a dict, which keeps its keys in insertion order: a sequence
\* of [date, samples] entries.  This is daily_forecasts[date].append(sample),
\* after "if date not in daily_forecasts: daily_forecasts[date] = []".
append_to_date(daily, date, sample) ==
    IF \E k \in 1..Len(daily) : daily[k].date = date
    THEN [k \in 1..Len(daily) |->
            IF daily[k].date = date
            THEN [date |-> date, samples |-> Append(daily[k].samples, sample)]
            ELSE daily[k]]
    ELSE Append(daily, [date |-> date, samples |-> <<sample>>])

\* the loop "for item in forecast_list" from item i on; samples[i] is the
\* outcome of building the entry appended for item i
RECURSIVE group_by_date(_, _, _, _)
group_by_date(forecast_list, samples, i, daily) ==
    IF i > Len(forecast_list) THEN Returned(daily)
    ELSE LET item == forecast_list[i]
             date == Split(Get(item, "dt_txt", << >>), " ")[1]
             sample == samples[i]
         IN  IF sample.exc # "" THEN sample
             ELSE group_by_date(forecast_list, samples, i + 1,
                                append_to_date(daily, date, sample.value))

\* list(daily_forecasts.keys())[:days], and the dict rebuilt over those keys
limit_days(daily, days) == Take(daily, days)

city_block(city_data) ==
    [name |-> Get(city_data, "name", "Unknown"),
     country |-> Get(city_data, "country", "Unknown"),
     coordinates |-> [latitude |-> Get(Get(city_data, "coord", EmptyDict), "lat", 0),
                      longitude |-> Get(Get(city_data, "coord", EmptyDict), "lon", 0)]]

format_forecast(d, days, units) ==
    LET forecast_list == Get(d, "list", << >>)
        samples == [i \in 1..Len(forecast_list) |-> forecast_sample(forecast_list[i], units)]
        daily == group_by_date(forecast_list, samples, 1, << >>)
    IN  IF daily.exc # "" THEN [error |-> "Error formatting forecast data"]
        ELSE [location |-> city_block(Get(d, "city", EmptyDict)),
              forecast |-> limit_days(daily.value, days)]

-----------------------------------------------------------------------------
(* weather.py: OpenWeatherMap tools (global)                                *)

\* the tools' own credential check left out
key_configured_unchecked(key) == TRUE

\* "if not OPENWEATHER_API_KEY" is false: the credential is set
key_configured(key) == key # ""

MissingKeyMessage ==
    <<"OpenWeatherMap API key not configured. Please set OPENWEATHER_API_KEY environment variable.">>

\* "if days < 1 or days > 5" is false
days_in_range(days) == ~(days < 1 \/ days > 5)

\* make_openweather_request up to its await: without a key it returns None at
\* once and the tool goes on with on_none; with one it adds appid and sends.
make_openweather_request(url, params, on_none) ==
    IF OPENWEATHER_API_KEY = ""
    THEN /\ data' = None
         /\ sent' = << >>
         /\ Finish(on_none)
    ELSE /\ data' = None
         /\ sent' = <<Request("openweather", url,
                              params @@ [appid |-> OPENWEATHER_API_KEY])>>
         /\ pc' = "await"
         /\ result' = NoResult

\* ... and from the response on
make_openweather_response(resp) == IF resp.ok THEN Some(resp.json) ELSE None

get_current_weather_return(a, d) ==
    IF Falsy(d) THEN Text(<<"Unable to fetch current weather data.">>)
    ELSE Json(format_current_weather(d.value, a.units))

get_current_weather ==
    \E city \in Cities, units \in Units :
        /\ Start("get_current_weather", [city |-> city, units |-> units])
        /\ IF ~key_configured(OPENWEATHER_API_KEY)
           THEN /\ Finish(Text(MissingKeyMessage))
                /\ sent' = << >>
                /\ data' = None
           ELSE make_openweather_request("/weather", [q |-> city, units |-> units],
                    get_current_weather_return([units |-> units], None))

get_current_weather_resume ==
    /\ pc = "await" /\ tool = "get_current_weather"
    /\ \E resp \in Responses(WeatherPayloads) :
        /\ data' = make_openweather_response(resp)
        /\ Finish(get_current_weather_return(args, data'))
    /\ UNCHANGED <<OPENWEATHER_API_KEY, tool, args, sent>>

\* the coroutines the event loop runs concurrently (see TaskSpec)
Tasks == {"t1", "t2"}

\* the day count kept in a module-level variable, which a concurrent
\* get_weather_forecast overwrites
get_weather_forecast_return_shared(a, d) ==
    LET others == {u \in Tasks : tool[u] = "get_weather_forecast" /\ args[u].days # a.days}
        days == IF others = {} THEN a.days ELSE args[CHOOSE u \in others : TRUE].days
    IN  IF Falsy(d) THEN Text(<<"Unable to fetch forecast data.">>)
        ELSE Json(format_forecast(d.value, days, a.units))

get_weather_forecast_return(a, d) ==
    IF Falsy(d) THEN Text(<<"Unable to fetch forecast data.">>)
    ELSE Json(format_forecast(d.value, a.days, a.units))

get_weather_forecast ==
    \E city \in Cities, days \in DaysArgs, units \in Units :
        /\ Start("get_weather_forecast", [city |-> city, days |-> days, units |-> units])
        /\ IF ~key_configured(OPENWEATHER_API_KEY)
           THEN /\ Finish(Text(MissingKeyMessage))
                /\ sent' = << >>
                /\ data' = None
           ELSE IF ~days_in_range(days)
           THEN /\ Finish(Text(<<"Days must be between 1 and 5.">>))
                /\ sent' = << >>
                /\ data' = None
           ELSE make_openweather_request("/forecast", [q |-> city, units |-> units],
                    get_weather_forecast_return([days |-> days, units |-> units], None))

get_weather_forecast_resume ==
    /\ pc = "await" /\ tool = "get_weather_forecast"
    /\ \E resp \in Responses(ForecastPayloads) :
        /\ data' = make_openweather_response(resp)
        /\ Finish(get_weather_forecast_return(args, data'))
    /\ UNCHANGED <<OPENWEATHER_API_KEY, tool, args, sent>>

get_weather_by_coordinates_return(a, d) ==
    IF Falsy(d) THEN Text(<<"Unable to fetch weather data by coordinates.">>)
    ELSE Json(format_current_weather(d.value, a.units))

get_weather_by_coordinates ==
    \E point \in Points, units \in Units :
        /\ Start("get_weather_by_coordinates",
                 [latitude |-> point.lat, longitude |-> point.lon, units |-> units])
        /\ IF ~key_configured(OPENWEATHER_API_KEY)
           THEN /\ Finish(Text(MissingKeyMessage))
                /\ sent' = << >>
                /\ data' = None
           ELSE make_openweather_request("/weather",
                    [lat |-> point.lat, lon |-> point.lon, units |-> units],
                    get_weather_by_coordinates_return([units |-> units], None))

get_weather_by_coordinates_resume ==
    /\ pc = "await" /\ tool = "get_weather_by_coordinates"
    /\ \E resp \in Responses(WeatherPayloads) :
        /\ data' = make_openweather_response(resp)
        /\ Finish(get_weather_by_coordinates_return(args, data'))
    /\ UNCHANGED <<OPENWEATHER_API_KEY, tool, args, sent>>

-----------------------------------------------------------------------------
(* mcp_weather_sse.py: WeatherSSEServer                                     *)

\* main() exits when the environment holds no key, so the handlers only ever
\* run with self.api_key set to it.
server_started == OPENWEATHER_API_KEY # ""

SseWeatherParams ==
    {EmptyDict} \cup {[city |-> c] : c \in Cities}
    \cup {[city |-> c, units |-> u] : c \in Cities, u \in Units}
SseForecastParams ==
    {EmptyDict} \cup {[city |-> c] : c \in Cities}
    \cup {[city |-> c, days |-> n, units |-> u] : c \in Cities, n \in DaysArgs, u \in Units}
SseCoordinateParams ==
    {EmptyDict}
    \cup {[latitude |-> pt.lat, longitude |-> pt.lon, units |-> u] : pt \in Points, u \in Units}

\* "cordinates": {"latitude"} is a set literal
sse_format_current_weather(d, units) ==
    LET w == first_weather(d)
    IN  IF w.exc # ""
        THEN [error |-> "Error formatting current weather data", details |-> w.exc]
        ELSE [location |-> [name |-> Get(d, "name", "Unknown"),
                            country |-> Get(Get(d, "sys", EmptyDict), "country", "Unknown"),
                            cordinates |-> {"latitude"}],
              current |-> current_block(d, w.value, units) @@ precipitation(d)]

\* the same entry as weather.py's, under the key "weater"
sse_forecast_sample(item, units) ==
    LET s == forecast_sample(item, units)
    IN  IF s.exc # "" THEN s
        ELSE Returned([k \in (DOMAIN s.value \ {"weather"}) \cup {"weater"} |->
                          IF k = "weater" THEN s.value["weather"] ELSE s.value[k]])

sse_format_forecast(d, days, units) ==
    LET forecast_list == Get(d, "list", << >>)
        samples == [i \in 1..Len(forecast_list) |->
                       sse_forecast_sample(forecast_list[i], units)]
        daily == group_by_date(forecast_list, samples, 1, << >>)
    IN  IF daily.exc # ""
        THEN [error |-> "Error formatting weather forecast data", details |-> daily.exc]
        ELSE [location |-> city_block(Get(d, "city", EmptyDict)),
              forecast |-> limit_days(daily.value, days)]

\* json.dumps(result): a set is not JSON serializable
sse_json_dumps(v) ==
    IF "location" \in DOMAIN v /\ "cordinates" \in DOMAIN v["location"]
    THEN Raised("TypeError")
    ELSE Returned(v)

\* requests.get(url, params=...) of a handler
sse_request(url, params) ==
    /\ server_started
    /\ data' = None
    /\ sent' = <<Request("openweather", url, params @@ [appid |-> OPENWEATHER_API_KEY])>>
    /\ pc' = "await"
    /\ result' = NoResult

\* "except requests.exceptions.RequestExceptions": the module has no such name,
\* so whatever the try block raises, the except clause raises AttributeError
handle_current_weather_return(a, resp) ==
    IF ~resp.ok THEN Fault("AttributeError")
    ELSE LET dumped == sse_json_dumps(
                           sse_format_current_weather(resp.json, Get(a, "units", "metric")))
         IN  IF dumped.exc # "" THEN Fault("AttributeError") ELSE Json(dumped.value)

handle_current_weather ==
    \E params \in SseWeatherParams :
        /\ Start("sse:get_current_weather", params)
        /\ sse_request("/weather", [q |-> Get(params, "city", ""),
                                    units |-> Get(params, "units", "metric")])

handle_current_weather_resume ==
    /\ pc = "await" /\ tool = "sse:get_current_weather"
    /\ \E resp \in Responses(WeatherPayloads) :
        /\ data' = IF resp.ok THEN Some(resp.json) ELSE None
        /\ Finish(handle_current_weather_return(args, resp))
    /\ UNCHANGED <<OPENWEATHER_API_KEY, tool, args, sent>>

\* except requests.exceptions.RequestException
handle_weather_forecast_return(a, resp) ==
    IF ~resp.ok THEN Text(<<"Error fetching forecast data: ", "RequestException">>)
    ELSE Json(sse_format_forecast(resp.json, Get(a, "days", 3), Get(a, "units", "metric")))

handle_weather_forecast ==
    \E params \in SseForecastParams :
        /\ Start("sse:get_weather_forecast", params)
        /\ sse_request("/forecast", [q |-> Get(params, "city", ""),
                                     units |-> Get(params, "units", "metric")])

handle_weather_forecast_resume ==
    /\ pc = "await" /\ tool = "sse:get_weather_forecast"
    /\ \E resp \in Responses(ForecastPayloads) :
        /\ data' = IF resp.ok THEN Some(resp.json) ELSE None
        /\ Finish(handle_weather_forecast_return(args, resp))
    /\ UNCHANGED <<OPENWEATHER_API_KEY, tool, args, sent>>

\* except requests.exceptions.RequestException: a TypeError of json.dumps passes it
handle_weather_by_coordinates_return(a, resp) ==
    IF ~resp.ok
    THEN Text(<<"Error fetching weather data by coordinates: ", "RequestException">>)
    ELSE LET dumped == sse_json_dumps(
                           sse_format_current_weather(resp.json, Get(a, "units", "metric")))
         IN  IF dumped.exc # "" THEN Fault(dumped.exc) ELSE Json(dumped.value)

handle_weather_by_coordinates ==
    \E params \in SseCoordinateParams :
        /\ Start("sse:get_weather_by_coordinates", params)
        /\ sse_request("/weather", [lat |-> Get(params, "latitude", 0),
                                    lon |-> Get(params, "longitude", 0),
                                    units |-> Get(params, "units", "metric")])

handle_weather_by_coordinates_resume ==
    /\ pc = "await" /\ tool = "sse:get_weather_by_coordinates"
    /\ \E resp \in Responses(WeatherPayloads) :
        /\ data' = IF resp.ok THEN Some(resp.json) ELSE None
        /\ Finish(handle_weather_by_coordinates_return(args, resp))
    /\ UNCHANGED <<OPENWEATHER_API_KEY, tool, args, sent>>

\* The runtime hands the result to the caller and is ready for the next invocation.
tool_returned ==
    /\ pc = "done"
    /\ pc' = "idle"
    /\ tool' = "none"
    /\ args' = EmptyDict
    /\ sent' = << >>
    /\ data' = None
    /\ result' = NoResult
    /\ UNCHANGED OPENWEATHER_API_KEY

-----------------------------------------------------------------------------
Next ==
    \/ get_directions
    \/ get_directions_resume
    \/ search_location
    \/ search_location_resume
    \/ search_services
    \/ search_services_resume
    \/ get_alerts
    \/ get_alerts_resume
    \/ get_forecast
    \/ get_forecast_points
    \/ get_forecast_resume
    \/ get_current_weather
    \/ get_current_weather_resume
    \/ get_weather_forecast
    \/ get_weather_forecast_resume
    \/ get_weather_by_coordinates
    \/ get_weather_by_coordinates_resume
    \/ handle_current_weather
    \/ handle_current_weather_resume
    \/ handle_weather_forecast
    \/ handle_weather_forecast_resume
    \/ handle_weather_by_coordinates
    \/ handle_weather_by_coordinates_resume
    \/ tool_returned

Spec == Init /\ [][Next]_vars

-----------------------------------------------------------------------------
(* mcp_weather_sse.py: the compass mapper                                   *)
(* _get_wind_direction is a method no handler calls; it is exercised on     *)
(* its own. A bearing is given in quarter degrees, so that bearings that    *)
(* fall exactly between two sectors (11.25, 33.75, ...) are among the       *)
(* inputs.                                                                  *)

MaxBearing == 720    \* largest bearing, in degrees
Bearings == (-1440)..(4 * MaxBearing)

directions ==
    <<"N", "NNE", "NE", "ENE", "E", "ESE", "SE", "SSE",
      "S", "SSW", "SW", "WSW", "W", "WNW", "NW", "NNW">>

\* round(n / d) for d > 0: Python rounds a half to the even neighbour
RoundHalfEven(n, d) ==
    LET f == n \div d
        r == n % d
    IN  IF 2 * r < d THEN f
        ELSE IF 2 * r > d THEN f + 1
        ELSE IF f % 2 = 0 THEN f ELSE f + 1

\* a sector of 45 degrees instead of 22.5
wind_index_wide(quarters) == RoundHalfEven(quarters, 180) % Len(directions)

\* round(degrees / (360 / len(directions))) % len(directions), with
\* degrees = quarters / 4 and 360 / 16 = 22.5 = 90 / 4
wind_index(quarters) == RoundHalfEven(quarters, 90) % Len(directions)

get_wind_direction(quarters) == directions[wind_index(quarters) + 1]

\* a method's return value
Value(v) == [kind |-> "value", body |-> v]

call_get_wind_direction ==
    \E quarters \in Bearings :
        /\ Start("sse:_get_wind_direction", [quarter_degrees |-> quarters])
        /\ sent' = << >>
        /\ data' = None
        /\ Finish(Value(get_wind_direction(quarters)))

CompassInit == Init /\ server_started

CompassNext ==
    \/ call_get_wind_direction
    \/ tool_returned

CompassSpec == CompassInit /\ [][CompassNext]_vars

-----------------------------------------------------------------------------
(* weather.py: tool coroutines run concurrently                             *)
(* The event loop interleaves the coroutines of concurrent tool calls at    *)
(* their awaits. In this specification each local of the single-invocation  *)
(* specification is a function of the task: tool[t], args[t], pc[t],        *)
(* sent[t], data[t], result[t]. OPENWEATHER_API_KEY is the module global     *)
(* they all read.                                                           *)

TaskForecastPayloads ==
    { EmptyDict,
      [city |-> FullCity, list |-> <<ForecastItem("A", "x", 1), ForecastItem("B", "x", 3)>>],
      [city |-> FullCity,
       list |-> <<[ForecastItem("C", "y", 6) EXCEPT !["weather"] = << >>]>>] }
TaskWeatherPayloads == {EmptyDict, FullWeather}

TaskInit ==
    /\ OPENWEATHER_API_KEY \in Keys
    /\ tool = [t \in Tasks |-> "none"]
    /\ args = [t \in Tasks |-> EmptyDict]
    /\ pc = [t \in Tasks |-> "idle"]
    /\ sent = [t \in Tasks |-> << >>]
    /\ data = [t \in Tasks |-> None]
    /\ result = [t \in Tasks |-> NoResult]

task_start(t, name, a) ==
    /\ pc[t] = "idle"
    /\ tool' = [tool EXCEPT ![t] = name]
    /\ args' = [args EXCEPT ![t] = a]
    /\ UNCHANGED OPENWEATHER_API_KEY

task_finish(t, r) ==
    /\ pc' = [pc EXCEPT ![t] = "done"]
    /\ result' = [result EXCEPT ![t] = r]

\* a tool returning before any request
task_refuse(t, r) ==
    /\ task_finish(t, r)
    /\ sent' = [sent EXCEPT ![t] = << >>]
    /\ data' = [data EXCEPT ![t] = None]

\* make_openweather_request up to its await, in task t
task_openweather_request(t, url, params, on_none) ==
    IF OPENWEATHER_API_KEY = ""
    THEN task_refuse(t, on_none)
    ELSE /\ data' = [data EXCEPT ![t] = None]
         /\ sent' = [sent EXCEPT ![t] = <<Request("openweather", url,
                                              params @@ [appid |-> OPENWEATHER_API_KEY])>>]
         /\ pc' = [pc EXCEPT ![t] = "await"]
         /\ result' = [result EXCEPT ![t] = NoResult]

task_get_current_weather(t) ==
    \E city \in Cities, units \in Units :
        /\ task_start(t, "get_current_weather", [city |-> city, units |-> units])
        /\ IF ~key_configured(OPENWEATHER_API_KEY)
           THEN task_refuse(t, Text(MissingKeyMessage))
           ELSE task_openweather_request(t, "/weather", [q |-> city, units |-> units],
                    get_current_weather_return([units |-> units], None))

task_get_current_weather_resume(t) ==
    /\ pc[t] = "await" /\ tool[t] = "get_current_weather"
    /\ \E resp \in Responses(TaskWeatherPayloads) :
        /\ data' = [data EXCEPT ![t] = make_openweather_response(resp)]
        /\ task_finish(t, get_current_weather_return(args[t], data'[t]))
    /\ UNCHANGED <<OPENWEATHER_API_KEY, tool, args, sent>>

task_get_weather_forecast(t) ==
    \E city \in Cities, days \in DaysArgs, units \in Units :
        /\ task_start(t, "get_weather_forecast",
                      [city |-> city, days |-> days, units |-> units])
        /\ IF ~key_configured(OPENWEATHER_API_KEY)
           THEN task_refuse(t, Text(MissingKeyMessage))
           ELSE IF ~days_in_range(days)
           THEN task_refuse(t, Text(<<"Days must be between 1 and 5.">>))
           ELSE task_openweather_request(t, "/forecast", [q |-> city, units |-> units],
                    get_weather_forecast_return([days |-> days, units |-> units], None))

task_get_weather_forecast_resume(t) ==
    /\ pc[t] = "await" /\ tool[t] = "get_weather_forecast"
    /\ \E resp \in Responses(TaskForecastPayloads) :
        /\ data' = [data EXCEPT ![t] = make_openweather_response(resp)]
        /\ task_finish(t, get_weather_forecast_return(args[t], data'[t]))
    /\ UNCHANGED <<OPENWEATHER_API_KEY, tool, args, sent>>

\* the coroutine of task t is over; the task may run another tool call
task_returned(t) ==
    /\ pc[t] = "done"
    /\ pc' = [pc EXCEPT ![t] = "idle"]
    /\ tool' = [tool EXCEPT ![t] = "none"]
    /\ args' = [args EXCEPT ![t] = EmptyDict]
    /\ sent' = [sent EXCEPT ![t] = << >>]
    /\ data' = [data EXCEPT ![t] = None]
    /\ result' = [result EXCEPT ![t] = NoResult]
    /\ UNCHANGED OPENWEATHER_API_KEY

TaskNext ==
    \E t \in Tasks :
        \/ task_get_current_weather(t)
        \/ task_get_current_weather_resume(t)
        \/ task_get_weather_forecast(t)
        \/ task_get_weather_forecast_resume(t)
        \/ task_returned(t)

TaskSpec == TaskInit /\ [][TaskNext]_vars

-----------------------------------------------------------------------------
(* Properties                                                               *)

Done == pc = "done"
Diagnostic(first) == result.kind = "text" /\ result.body[1] = first

ForecastTools == {"get_weather_forecast", "sse:get_weather_forecast"}
CredentialTools ==
    {"get_current_weather", "get_weather_forecast", "get_weather_by_coordinates",
     "sse:get_current_weather", "sse:get_weather_forecast", "sse:get_weather_by_coordinates"}

\* the day count an invocation asks for (the SSE schema's default is 3)
DaysAsked == Get(args, "days", 3)

\* C1: in every get_weather_forecast implementation an invocation with days
\* outside 1..5 issues no upstream request and ends with the InvalidInput
\* diagnostic (or, the credential check coming first, with the
\* MissingCredential one when the key is unset).
C1_DaysValidated ==
    (tool \in ForecastTools /\ (DaysAsked < 1 \/ DaysAsked > 5)) =>
        /\ sent = << >>
        /\ Done
        /\ \/ Diagnostic("Days must be between 1 and 5.")
           \/ OPENWEATHER_API_KEY = "" /\ Diagnostic(MissingKeyMessage[1])

\* C2: get_directions with a profile that is none of driving, walking, cycling
\* ends at once with an InvalidInput diagnostic listing the three profiles and
\* issues no upstream request; with a valid profile exactly one routing request
\* for that profile is dispatched.
C2_ProfileValidated ==
    tool = "get_directions" =>
        IF args.profile \notin {"driving", "walking", "cycling"}
        THEN /\ Done
             /\ sent = << >>
             /\ result.kind = "text"
             /\ result.body = <<"Invalid profile. Must be one of: ",
                                "driving", ", ", "walking", ", ", "cycling">>
        ELSE /\ Len(sent) = 1
             /\ sent[1].api = "osrm"
             /\ sent[1].target.route = args.profile
             /\ ~(Done /\ Diagnostic("Invalid profile. Must be one of: "))

C2_InvalidProfileRejected ==
    tool = "get_directions" /\ args.profile = "flying" /\ Done /\ sent = << >>

\* C3: with the credential unset, every invocation of get_current_weather,
\* get_weather_forecast and get_weather_by_coordinates ends at once with the
\* MissingCredential diagnostic and issues no upstream request.
C3_MissingCredential ==
    (OPENWEATHER_API_KEY = "" /\ tool \in CredentialTools) =>
        /\ Done
        /\ sent = << >>
        /\ result.kind = "text"
        /\ result.body = <<"OpenWeatherMap API key not configured. Please set OPENWEATHER_API_KEY environment variable.">>

C3_RefusedWithoutKey ==
    /\ OPENWEATHER_API_KEY = ""
    /\ tool = "get_weather_by_coordinates"
    /\ Done
    /\ sent = << >>

\* the points payload of a finished get_forecast that stopped after one request
PointsAnswered == tool = "get_forecast" /\ Done /\ Len(sent) = 1 /\ ~data.is_none
HasForecastRef(payload) ==
    /\ "properties" \in DOMAIN payload
    /\ "forecast" \in DOMAIN payload["properties"]

\* C4: when the points call of get_forecast succeeds with a payload that has
\* no properties.forecast, the invocation ends with a diagnostic text, the
\* second request is not attempted and no fault reaches the caller.
C4_MissingForecastRef ==
    (PointsAnswered /\ ~HasForecastRef(data.value)) =>
        /\ result.kind = "text"
        /\ Len(sent) = 1

UnavailableDiagnostics ==
    {"Unable to fetch location data.", "Unable to fetch service data.",
     "Unable to fetch routing data.", "Unable to fetch alerts or no alerts found.",
     "Unable to fetch forecast data for this location.",
     "Unable to fetch detailed forecast.", "Unable to fetch current weather data.",
     "Unable to fetch forecast data.", "Unable to fetch weather data by coordinates.",
     "Error fetching weather data: ", "Error fetching forecast data: ",
     "Error fetching weather data by coordinates: "}

\* the transport reported a failure for the last request of the invocation
TransportFailed == tool # "none" /\ sent # << >> /\ Done /\ data.is_none

\* C5: in every tool, a transport failure ends the invocation with that
\* tool's "unable to fetch" diagnostic text: no fault reaches the caller.
C5_UnavailableDiagnostic ==
    TransportFailed =>
        /\ result.kind = "text"
        /\ result.body[1] \in UnavailableDiagnostics

\* C6: search_location answered with an empty array returns the "no
\* locations found" text, not the "unable to fetch" one.
C6_NoLocationsFound ==
    (tool = "search_location" /\ Done /\ ~data.is_none /\ data.value = << >>) =>
        Diagnostic("No locations found for the given query.")

EmptyList(payload, k) == k \in DOMAIN payload /\ payload[k] = << >>
NoAlerts == tool = "get_alerts" /\ Done /\ ~data.is_none /\ EmptyList(data.value, "features")
NoServices ==
    tool = "search_services" /\ Done /\ ~data.is_none /\ EmptyList(data.value, "elements")

\* C7: get_alerts answered with an empty features list returns the "no active
\* alerts" text, and search_services answered with an empty elements list
\* returns the "no services found" text naming the service type and radius;
\* neither returns a record or the "unable to fetch" text.
C7_EmptyResultTexts ==
    /\ NoAlerts =>
        /\ result.kind = "text"
        /\ result.body = <<"No active alerts for this state.">>
    /\ NoServices =>
        /\ result.kind = "text"
        /\ Len(result.body) = 5
        /\ result.body[1] = "No "
        /\ result.body[2] = args.service_type
        /\ result.body[3] = " services found within "
        /\ result.body[4].value = args.radius
        /\ result.body[4].suffix = "m"
        /\ result.body[5] = " of the specified location."

C7_NoServicesReported == NoServices /\ result.kind = "text"

\* a forecast invocation that got a payload and returned a record
ForecastMapped == tool \in ForecastTools /\ Done /\ result.kind = "json"
SampleList == Get(data.value, "list", << >>)
Grouped == "forecast" \in DOMAIN result.body

\* the date and the time of a sample, read off its "date time" string
DateTimeOf(item) == Get(item, "dt_txt", << >>)
SpaceAt(s) ==
    IF \E i \in 1..Len(s) : s[i] = " "
    THEN CHOOSE i \in 1..Len(s) : s[i] = " " /\ \A j \in 1..(i - 1) : s[j] # " "
    ELSE Len(s) + 1
DateOf(item) == SubSeq(DateTimeOf(item), 1, SpaceAt(DateTimeOf(item)) - 1)
TimeOf(item) ==
    SubSeq(DateTimeOf(item), SpaceAt(DateTimeOf(item)) + 1, Len(DateTimeOf(item)))
Timestamped(item) == SpaceAt(DateTimeOf(item)) <= Len(DateTimeOf(item))

\* the distinct dates of a sample list, in the order of their first occurrence
FirstOccurrences(list) ==
    {i \in 1..Len(list) : \A j \in 1..(i - 1) : DateOf(list[j]) # DateOf(list[i])}
DatesInOrder(list) ==
    LET firsts == FirstOccurrences(list)
    IN  [k \in 1..Cardinality(firsts) |->
            DateOf(list[CHOOSE i \in firsts : Cardinality({j \in firsts : j <= i}) = k])]
PositionOf(date, dates) == CHOOSE p \in 1..Len(dates) : dates[p] = date

\* the samples of a list that fall on a date, in input order
SamplesOn(list, date) ==
    LET on_date(item) == DateOf(item) = date
    IN  SelectSeq(list, on_date)

\* C8: in the output of the forecast bucketing (weather.py and the SSE
\* server), the date keys are dates of the input in the order of their first
\* occurrence, and under each retained date the samples are exactly the
\* input's samples of that date, in input order (compared by time and
\* temperature): none added, dropped or reordered.
C8_BucketingPreservesOrder ==
    (ForecastMapped /\ Grouped) =>
        LET out == result.body.forecast
            dates == DatesInOrder(SampleList)
        IN  /\ \A k \in 1..Len(out) : \E p \in 1..Len(dates) : dates[p] = out[k].date
            /\ \A j \in 1..Len(out) : \A k \in (j + 1)..Len(out) :
                  PositionOf(out[j].date, dates) < PositionOf(out[k].date, dates)
            /\ \A k \in 1..Len(out) :
                  LET kept == out[k].samples
                      given == SamplesOn(SampleList, out[k].date)
                  IN  /\ Len(kept) = Len(given)
                      /\ \A i \in 1..Len(kept) :
                            /\ kept[i].time = TimeOf(given[i])
                            /\ kept[i].temperature.value =
                                   Get(Get(given[i], "main", EmptyDict), "temp", 0)

\* two dates interleaved in the input, both retained, the first with two samples
C8_InterleavedDatesGrouped ==
    /\ ForecastMapped /\ Grouped
    /\ Len(SampleList) = 3
    /\ DateOf(SampleList[1]) = DateOf(SampleList[3])
    /\ DateOf(SampleList[1]) # DateOf(SampleList[2])
    /\ TimeOf(SampleList[1]) # TimeOf(SampleList[3])
    /\ Len(result.body.forecast) = 2
    /\ Len(result.body.forecast[1].samples) = 2

\* C9: for a requested day count N in 1..5 and a sample list whose samples
\* all carry their "date time" string, the output has a date key for the
\* first N distinct dates of the input, in that order, and for all of them
\* when the input has at most N.
C9_EarliestDatesKept ==
    (/\ ForecastMapped
     /\ DaysAsked \in 1..5
     /\ \A i \in 1..Len(SampleList) : Timestamped(SampleList[i])) =>
        /\ Grouped
        /\ LET out == result.body.forecast
               dates == DatesInOrder(SampleList)
           IN  /\ Len(out) = (IF Len(dates) > DaysAsked THEN DaysAsked ELSE Len(dates))
               /\ \A k \in 1..Len(out) : out[k].date = dates[k]

MapperTools ==
    {"get_current_weather", "get_weather_by_coordinates", "get_weather_forecast",
     "sse:get_current_weather", "sse:get_weather_by_coordinates",
     "sse:get_weather_forecast"}

\* C10: whatever optional fields the upstream payload leaves out, the
\* mappers complete: the alert mapper raises nothing and the weather and
\* forecast mappers return no error record.
C10_MappersTotal ==
    (Done /\ ~data.is_none) =>
        /\ tool = "get_alerts" => result.kind # "fault"
        /\ (tool \in MapperTools /\ result.kind = "json") => "error" \notin DOMAIN result.body

\* a finished search_services that mapped the elements of its payload
ServicesMapped == tool = "search_services" /\ Done /\ result.kind = "json"
KindOf(element) == Get(element, "type", "")
HasCentroid(element) == "center" \in DOMAIN element
Origin == [latitude |-> 0, longitude |-> 0]

\* C11: for every upstream element the ServicePlace mapper yields a
\* coordinate pair with both numbers present; a way or relation with no
\* centroid gets (0,0), and a node gets exactly its own lat and lon.
C11_ServiceCoordinates ==
    ServicesMapped =>
        \A i \in 1..Len(result.body.services) :
            LET element == data.value.elements[i]
                coords == result.body.services[i].coordinates
            IN  /\ DOMAIN coords = {"latitude", "longitude"}
                /\ coords.latitude \in Int
                /\ coords.longitude \in Int
                /\ (KindOf(element) \in {"way", "relation"} /\ ~HasCentroid(element))
                       => coords = Origin
                /\ (KindOf(element) = "node" /\ {"lat", "lon"} \subseteq DOMAIN element)
                       => (coords.latitude = element.lat /\ coords.longitude = element.lon)

\* a node with its position and a relation without centroid, mapped together
C11_NodeAndBareRelationMapped ==
    /\ ServicesMapped
    /\ Len(result.body.services) = 2
    /\ KindOf(data.value.elements[1]) = "node"
    /\ "lat" \in DOMAIN data.value.elements[1]
    /\ result.body.services[1].coordinates.latitude = 21
    /\ KindOf(data.value.elements[2]) = "relation"
    /\ ~HasCentroid(data.value.elements[2])
    /\ result.body.services[2].coordinates = Origin

\* a finished get_directions whose payload has no route
NoRoutes ==
    /\ tool = "get_directions" /\ Done /\ ~data.is_none
    /\ data.value # << >>
    /\ Get(data.value, "routes", << >>) = << >>

\* C12: for a route payload whose routes collection is absent or empty,
\* get_directions ends without a fault, and when the provider's code is "Ok"
\* (the route mapper is reached) the result wraps the "no route" sentinel
\* record as its route.
C12_NoRouteSentinel ==
    NoRoutes =>
        /\ result.kind # "fault"
        /\ Get(data.value, "code", "") = "Ok" =>
              /\ result.kind = "json"
              /\ DOMAIN result.body.route = {"error"}
              /\ result.body.route.error = "No routes found"
              /\ result.body.profile = args.profile

\* an "Ok" payload with an empty routes list, answered with the sentinel
C12_EmptyRoutesWrapped ==
    /\ NoRoutes
    /\ "routes" \in DOMAIN data.value
    /\ Get(data.value, "code", "") = "Ok"
    /\ result.kind = "json"
    /\ "error" \in DOMAIN result.body.route

\* the limit search_location forwards to the geocoding provider
ForwardedLimit == sent[1].params.limit

\* C13: search_location forwards exactly one request; for a limit above 50
\* the forwarded limit is exactly 50, and for a limit from 1 to 50 it is the
\* limit unchanged.
C13_LimitCapped ==
    tool = "search_location" =>
        /\ Len(sent) = 1
        /\ args.limit > 50 => ForwardedLimit = 50
        /\ (1 <= args.limit /\ args.limit <= 50) => ForwardedLimit = args.limit

\* a limit of 100 forwarded as 50
C13_HundredForwardedAsFifty ==
    tool = "search_location" /\ args.limit = 100 /\ Len(sent) = 1 /\ ForwardedLimit = 50

\* C14: whatever limit search_location is given, zero and negative ones
\* included, the limit it forwards lies in 1..50.
C14_ForwardedLimitInRange ==
    (tool = "search_location" /\ sent # << >>) =>
        (1 <= ForwardedLimit /\ ForwardedLimit <= 50)

\* the unit system an invocation asks for (the SSE handlers default to metric)
UnitsAsked == Get(args, "units", "metric")
TempSuffix == IF UnitsAsked = "imperial" THEN "°F" ELSE "°C"
SpeedSuffix == IF UnitsAsked = "imperial" THEN "mph" ELSE "m/s"

\* a weather tool that returned a mapped record
WeatherMapped ==
    /\ tool \in MapperTools /\ Done /\ result.kind = "json"
    /\ "error" \notin DOMAIN result.body
SnapshotMapped == WeatherMapped /\ "current" \in DOMAIN result.body
SamplesMapped == WeatherMapped /\ "forecast" \in DOMAIN result.body

\* C15: in a response for units "imperial" every temperature field
\* (temperature, feels-like, and the forecast samples' min and max) ends in
\* °F and every wind speed in mph; for "metric" they end in °C and m/s. No
\* response carries a suffix of the other system.
C15_UnitSuffixes ==
    /\ SnapshotMapped =>
          /\ result.body.current.temperature.suffix = TempSuffix
          /\ result.body.current.feels_like.suffix = TempSuffix
          /\ result.body.current.wind.speed.suffix = SpeedSuffix
    /\ SamplesMapped =>
          \A k \in 1..Len(result.body.forecast) :
              \A i \in 1..Len(result.body.forecast[k].samples) :
                  LET sample == result.body.forecast[k].samples[i]
                  IN  /\ sample.temperature.suffix = TempSuffix
                      /\ sample.feels_like.suffix = TempSuffix
                      /\ sample.min_temp.suffix = TempSuffix
                      /\ sample.max_temp.suffix = TempSuffix
                      /\ sample.wind.speed.suffix = SpeedSuffix

\* an imperial forecast of two dates, its samples in °F and mph
C15_ImperialForecast ==
    /\ SamplesMapped
    /\ UnitsAsked = "imperial"
    /\ Len(result.body.forecast) = 2
    /\ result.body.forecast[2].samples[1].max_temp.suffix = "°F"
    /\ result.body.forecast[2].samples[1].wind.speed.suffix = "mph"

\* the compass mapper has returned the label of a bearing
CompassMapped == tool = "sse:_get_wind_direction" /\ Done
Cardinals == <<"N", "E", "S", "W">>
CompassLabels ==
    {"N", "NNE", "NE", "ENE", "E", "ESE", "SE", "SSE",
     "S", "SSW", "SW", "WSW", "W", "WNW", "NW", "NNW"}

\* C16: for every bearing the compass mapper computes an index inside the
\* 16-entry table and returns one of the 16 compass labels; 0 gives N, 90 E,
\* 180 S, 270 W, and 360 wraps to N (every whole multiple of 90 degrees
\* gives its cardinal label).
C16_CompassLabels ==
    CompassMapped =>
        LET quarters == args.quarter_degrees
        IN  /\ wind_index(quarters) \in 0..15
            /\ result.body \in CompassLabels
            /\ quarters = 0 => result.body = "N"
            /\ quarters = 4 * 90 => result.body = "E"
            /\ quarters = 4 * 180 => result.body = "S"
            /\ quarters = 4 * 270 => result.body = "W"
            /\ quarters = 4 * 360 => result.body = "N"
            /\ quarters % 360 = 0 => result.body = Cardinals[((quarters \div 360) % 4) + 1]

\* the bearing 360 mapped to N
C16_FullTurnIsNorth ==
    CompassMapped /\ args.quarter_degrees = 4 * 360 /\ result.body = "N"

\* a step of a get_forecast invocation
ForecastStep == tool' = "get_forecast"
PointsRequest ==
    Request("nws", <<"/points/", args'.latitude, ",", args'.longitude>>, EmptyDict)

\* the step issues the points request: it is the first of the invocation
IssuesPoints == sent = << >> /\ sent' = <<PointsRequest>>
\* the step issues the forecast request: it is the step in which the points
\* response arrives, successful and carrying the reference that is requested
IssuesForecast ==
    /\ pc = "await_points"
    /\ Len(sent) = 1
    /\ ~data'.is_none
    /\ HasForecastRef(data'.value)
    /\ Len(sent') = 2
    /\ sent'[1] = sent[1]
    /\ sent'[2].api = "nws"
    /\ sent'[2].target = data'.value["properties"]["forecast"]

C17_Step ==
    ForecastStep =>
        /\ sent' # sent => (IssuesPoints \/ IssuesForecast)
        /\ (pc = "await_points" /\ data'.is_none) => (sent' = sent /\ pc' = "done")
        /\ (pc = "await_points" /\ sent' = sent) => pc' = "done"
        /\ pc = "await_forecast" => (sent' = sent /\ pc' = "done")
        /\ Len(sent') <= 2

\* C17: in every execution of get_forecast the forecast request is issued
\* only in answer to a successful points response and targets the reference
\* that response contains; when the points call fails the invocation ends
\* without a second request; an invocation issues at most one points request
\* and at most one forecast request.
C17_TwoStepLookup == [][C17_Step]_vars

\* the forecast request in flight, aimed at the reference just resolved
C17_ForecastRequested ==
    /\ tool = "get_forecast" /\ pc = "await_forecast"
    /\ Len(sent) = 2
    /\ sent[2].target = data.value["properties"]["forecast"]

\* C18: for every way or relation that carries a centroid, the ServicePlace
\* mapper's coordinates are that centroid's lat and lon.
C18_CentroidUsed ==
    ServicesMapped =>
        \A i \in 1..Len(result.body.services) :
            LET element == data.value.elements[i]
                coords == result.body.services[i].coordinates
            IN  (KindOf(element) \in {"way", "relation"} /\ HasCentroid(element)) =>
                    /\ coords.latitude = Get(element.center, "lat", 0)
                    /\ coords.longitude = Get(element.center, "lon", 0)

\* two finished invocations with the same tool, arguments, request and
\* upstream response
SameInputs(t, u) ==
    /\ pc[t] = "done" /\ pc[u] = "done"
    /\ tool[t] = tool[u]
    /\ args[t] = args[u]
    /\ sent[t] = sent[u]
    /\ data[t].is_none = data[u].is_none
    /\ data[t].value = data[u].value

C19_SameInputsSameResult ==
    \A t \in Tasks : \A u \in Tasks : SameInputs(t, u) => result[t] = result[u]

\* a step changes the locals of one task at most, and never the credential
C19_Step ==
    /\ OPENWEATHER_API_KEY' = OPENWEATHER_API_KEY
    /\ \E t \in Tasks : \A u \in Tasks \ {t} :
          /\ tool'[u] = tool[u]
          /\ args'[u] = args[u]
          /\ pc'[u] = pc[u]
          /\ sent'[u] = sent[u]
          /\ data'[u] = data[u]
          /\ result'[u] = result[u]

\* C19: however the tool invocations of concurrent tasks interleave and
\* follow one another, the credential keeps the value read at startup, a
\* step of one invocation changes nothing of another, and two invocations
\* with the same arguments, credential and upstream response return the
\* same result whatever ran before or beside them.
C19_NoSharedState == [][C19_Step]_vars /\ []C19_SameInputsSameResult

\* two concurrent forecasts with the same inputs both returned their record,
\* each started while the other was in flight or finished
C19_TwinForecastsReturned ==
    /\ SameInputs("t1", "t2")
    /\ tool["t1"] = "get_weather_forecast"
    /\ result["t1"].kind = "json"
    /\ result["t2"].kind = "json"
    /\ "forecast" \in DOMAIN result["t1"].body
    /\ Len(result["t1"].body.forecast) = 1
    /\ Len(data["t1"].value.list) = 2

====
